---- MODULE Spec2Model ----
(***************************************************************************)
(* Azure Log Analytics scaler (pkg/scalers/azure_log_analytics_scaler.go). *)
(*                                                                         *)
(* The model follows the Go source: a process-wide tokenCache guarded by   *)
(* a sync.RWMutex, scaler instances each with their metadata and their     *)
(* sessionCache, and the call chain                                        *)
(*   IsActive / GetMetricSpecForScaling -> updateCache -> getMetricData    *)
(*   GetMetrics -> getMetricData                                           *)
(*   getMetricData -> getAccessToken -> executeQuery                       *)
(* cut into steps at every point where another goroutine can interleave:   *)
(* the lock operations, the HTTP calls and time.Sleep.                     *)
(***************************************************************************)
EXTENDS Integers, Sequences, FiniteSets, TLC

\* ------------------------------------------------------------------ bounds

\* Wall-clock seconds the Tick action may reach (a sleep may go beyond it).
MaxNow == 1

\* Calls of the scaler interface, all scalers together.
MaxCalls == 2

\* The same where the three interface functions are called ("facade").
MaxFacadeCalls == 3

\* ------------------------------------------------- data of the Go program

Instances == {1, 2}

\* tokenData{}: the zero value, returned beside every error.
ZeroToken == [AccessToken |-> "", ExpiresOn |-> 0, NotBefore |-> 0]

\* Response bodies, as far as the program looks at them: their length, whether
\* the text contains "TokenExpired", whether encoding/json decodes them, and
\* what they decode to (a tokenData, or the tables of a queryResult).
NilBody == [kind |-> "nil", marker |-> FALSE, tables |-> <<>>, token |-> ZeroToken]

EmptyBody == [kind |-> "empty", marker |-> FALSE, tables |-> <<>>, token |-> ZeroToken]

TextBody(marker) == [kind |-> "text", marker |-> marker, tables |-> <<>>, token |-> ZeroToken]

TokenBody(tok) == [kind |-> "json", marker |-> FALSE, tables |-> <<>>, token |-> tok]

TablesBody(marker, tables) == [kind |-> "json", marker |-> marker, tables |-> tables, token |-> ZeroToken]

BodyLen0(body) == body.kind \in {"nil", "empty"}

\* A cell of a row, decoded into interface{}: nil, a float64 (held in halves,
\* so that 25 is 12.5), or a value of another type (a string).
NullCell == [k |-> "null", v |-> 0]

NumCell(halves) == [k |-> "num", v |-> halves]

StrCell == [k |-> "str", v |-> 0]

\* A float64 of 2^63 or more (such as 1e19), which int64 cannot hold.
HugeCell == [k |-> "huge", v |-> 0]

\* The type assertion metricVal.(float64).
IsFloat64(cell) == cell.k \in {"num", "huge"}

Table(types, rows) == [Columns |-> types, Rows |-> rows]

\* What http.Client.Do and ioutil.ReadAll give runHTTP.
Exchange(status, body) ==
    [doErr |-> FALSE, respNil |-> FALSE, statusCode |-> status, readErr |-> FALSE, body |-> body]

ReadFailure(status) ==
    [doErr |-> FALSE, respNil |-> FALSE, statusCode |-> status, readErr |-> TRUE, body |-> NilBody]

TransportFailure ==
    [doErr |-> TRUE, respNil |-> TRUE, statusCode |-> 0, readErr |-> FALSE, body |-> NilBody]

\* ------------------------------------------------------- pure functions

\* runHTTP: on a transport error resp is nil and resp.StatusCode panics.
runHTTP(x) ==
    IF x.doErr
    THEN [panic |-> x.respNil, body |-> NilBody, statusCode |-> x.statusCode, err |-> TRUE]
    ELSE IF x.readErr
         THEN [panic |-> FALSE, body |-> NilBody, statusCode |-> x.statusCode, err |-> TRUE]
         ELSE [panic |-> FALSE, body |-> x.body, statusCode |-> x.statusCode, err |-> FALSE]

\* getHash: the digest is taken as injective, so the key is the digest's input.
getHash(clientID, clientSecret) == clientID \o "|" \o clientSecret

\* Faulty variant of lookupKey: a key per workspace.
lookupKey_PerWorkspace(meta) ==
    IF meta.podIdentity = ""
    THEN getHash(meta.clientID, meta.workspaceID)
    ELSE getHash(meta.podIdentity, meta.workspaceID)

\* The key getAccessToken reads the cache under.
lookupKey(meta) ==
    IF meta.podIdentity = ""
    THEN getHash(meta.clientID, meta.clientSecret)
    ELSE getHash(meta.podIdentity, meta.podIdentity)

\* Faulty variant of storeKey: the two credentials in the other order.
storeKey_Swapped(meta) ==
    IF meta.podIdentity = ""
    THEN getHash(meta.clientSecret, meta.clientID)
    ELSE getHash(meta.podIdentity, meta.podIdentity)

\* The key getAccessToken stores the new token under.
storeKey(meta) ==
    IF meta.podIdentity = ""
    THEN getHash(meta.clientID, meta.clientSecret)
    ELSE getHash(meta.podIdentity, meta.podIdentity)

\* The key executeQuery stores the refreshed token under.
retryStoreKey(meta) ==
    IF meta.podIdentity = ""
    THEN getHash(meta.clientID, meta.clientSecret)
    ELSE getHash(meta.podIdentity, meta.podIdentity)

\* Faulty variant of retryToken: the second query sent with the first token.
retryToken_Original(original, refreshed) == original

\* The token executeQuery sends with the second query: line 314 declares a
\* new tokenInfo in the if block, which line 325 uses.
retryToken(original, refreshed) == refreshed

\* getTokenFromCache, the part inside RLock/RUnlock.
getTokenFromCache(m, key) ==
    IF key \in DOMAIN m /\ m[key].AccessToken # ""
    THEN [tok |-> m[key], found |-> TRUE]
    ELSE [tok |-> ZeroToken, found |-> FALSE]

\* tokenCache.m[key] = tokenInfo
mapPut(m, key, tok) ==
    [k \in DOMAIN m \cup {key} |-> IF k = key THEN tok ELSE m[k]]

\* Faulty variants of needsRefresh: the boundary second counted as expired,
\* and a margin of 29 seconds.
needsRefresh_Inclusive(currentTimeSec, tokenInfo) ==
    currentTimeSec + 30 >= tokenInfo.ExpiresOn

needsRefresh_Margin29(currentTimeSec, tokenInfo) ==
    currentTimeSec + 29 > tokenInfo.ExpiresOn

\* getAccessToken's test: the token is absent or expires in less than 30 s.
needsRefresh(currentTimeSec, tokenInfo) == currentTimeSec + 30 > tokenInfo.ExpiresOn

\* Error values are named by the source line that builds them.
NoErr == 0

\* getAuthorizationToken, given what runHTTP returned (no panic).
getAuthorizationToken(r) ==
    IF r.err THEN [tok |-> ZeroToken, err |-> 445]
    ELSE IF BodyLen0(r.body) THEN [tok |-> ZeroToken, err |-> 447]
    ELSE IF r.body.kind # "json" THEN [tok |-> ZeroToken, err |-> 452]
    ELSE IF r.statusCode = 200 THEN [tok |-> r.body.token, err |-> NoErr]
    ELSE [tok |-> ZeroToken, err |-> 459]

\* Faulty variant of notBeforeCheck: the token is returned with no wait.
notBeforeCheck_NoWait(currentTimeSec, tokenInfo) == [sleep |-> 0, err |-> NoErr]

\* refreshAccessToken after getAuthorizationToken: the seconds to sleep
\* (0: none) and the error.
notBeforeCheck(currentTimeSec, tokenInfo) ==
    IF currentTimeSec < tokenInfo.NotBefore
    THEN IF currentTimeSec < tokenInfo.NotBefore + 10
         THEN [sleep |-> tokenInfo.NotBefore - currentTimeSec + 1, err |-> NoErr]
         ELSE [sleep |-> 0, err |-> 429]
    ELSE [sleep |-> 0, err |-> NoErr]

\* executeQuery's "Handle expired token" test.
tokenExpiredSignal(r) ==
    r.statusCode = 403 \/ (~BodyLen0(r.body) /\ r.body.marker)

\* math.MinInt64 and math.MaxInt64. The model checker's integers have 32 bits:
\* the ends of their range stand for the ends of int64's.
MinInt64 == -2147483647

MaxInt64 == 2147483647

\* The builds of the program, as far as they differ in int64(f) for an f that
\* int64 cannot hold (the Go specification leaves the result to the
\* implementation): the conversion instruction of amd64 gives the minimum, that
\* of arm64 saturates.
Builds == {"amd64", "arm64"}

\* int64(f) for a float64 f >= 0: truncation.
toInt64(cell, arch) ==
    IF cell.k = "huge"
    THEN IF arch = "amd64" THEN MinInt64 ELSE MaxInt64
    ELSE cell.v \div 2

IsNumericType(t) == t \in {"real", "int", "long"}

\* executeQuery, the value column.
valueColumn(table, arch) ==
    LET row == table.Rows[1] IN
    IF Len(row) > 0 /\ row[1].k # "null"
    THEN IF IsNumericType(table.Columns[1])
         THEN IF ~IsFloat64(row[1]) THEN [err |-> 371, value |-> 0]
              ELSE IF row[1].v < 0 THEN [err |-> 374, value |-> 0]
              ELSE [err |-> NoErr, value |-> toInt64(row[1], arch)]
         ELSE [err |-> 378, value |-> 0]
    ELSE [err |-> NoErr, value |-> 0]

\* Line 384 indexes Columns[1] with no length check: a row with two cells under
\* one declared column panics (index out of range).
thresholdColumn(table, arch) ==
    LET row == table.Rows[1] IN
    IF Len(row) > 1
    THEN IF Len(table.Columns) < 2 THEN [err |-> NoErr, panic |-> TRUE, threshold |-> 0]
         ELSE IF row[2].k # "null"
         THEN IF IsNumericType(table.Columns[2])
              THEN IF ~IsFloat64(row[2]) THEN [err |-> 392, panic |-> FALSE, threshold |-> 0]
                   ELSE IF row[2].v < 0 THEN [err |-> 395, panic |-> FALSE, threshold |-> 0]
                   ELSE [err |-> NoErr, panic |-> FALSE, threshold |-> toInt64(row[2], arch)]
              ELSE [err |-> 399, panic |-> FALSE, threshold |-> 0]
         ELSE [err |-> 402, panic |-> FALSE, threshold |-> 0]
    ELSE [err |-> NoErr, panic |-> FALSE, threshold |-> -1]

\* executeQuery from line 331 on. body and statusCode are those of the last
\* call; err is the function-level err, which the retry does not assign (line
\* 314 declares a new err inside the if block), so it is the first call's.
queryOutcome(r, err, arch) ==
    LET NoPanic(line) == [err |-> line, panic |-> FALSE, value |-> 0, threshold |-> 0]
        tables == r.body.tables
    IN
    IF r.statusCode # 200 /\ r.statusCode # 0 THEN NoPanic(332)
    ELSE IF err THEN NoPanic(336)
    ELSE IF BodyLen0(r.body) THEN NoPanic(340)
    ELSE IF r.body.kind # "json" THEN NoPanic(345)
    ELSE IF r.statusCode = 200
    THEN IF Len(tables) = 0 \/ Len(tables[1].Columns) = 0 \/ Len(tables[1].Rows) = 0
         THEN NoPanic(355)
         ELSE IF Len(tables) > 1 THEN NoPanic(357)
         ELSE IF Len(tables[1].Rows) > 1 THEN NoPanic(359)
         ELSE LET v == valueColumn(tables[1], arch)
                  t == thresholdColumn(tables[1], arch)
              IN
              IF v.err # NoErr THEN NoPanic(v.err)
              ELSE IF t.panic THEN [err |-> NoErr, panic |-> TRUE, value |-> 0, threshold |-> 0]
              ELSE IF t.err # NoErr THEN NoPanic(t.err)
              ELSE [err |-> NoErr, panic |-> FALSE, value |-> v.value, threshold |-> t.threshold]
    ELSE NoPanic(411)

\* ------------------------------------------------------------ the state

VARIABLES
    now,          \* time.Now().Unix()
    crashed,      \* the process died of a panic
    metadata,     \* per scaler: azureLogAnalyticsMetadata
    cache,        \* per scaler: sessionCache
    tokenCache,   \* the package variable: map and RWMutex
    pc,           \* per scaler: where its goroutine stands
    frame,        \* per scaler: the local variables of the call in progress
    run,          \* per scaler: what its getMetricData in progress did so far
    returned,     \* the last return of an interface call, and what its run did
    nCalls,       \* per scaler: interface calls made
    stats,        \* per scaler: calls and getMetricData runs, counted
    lastQuery,    \* the last response executeQuery examined, and what it made of it
    build,        \* the build of the program that runs
    mode          \* what the environment does: the inputs in use

vars ==
    <<now, crashed, metadata, cache, tokenCache, pc, frame, run, returned, nCalls, stats,
      lastQuery, build, mode>>

Ops == {"IsActive", "GetMetricSpecForScaling", "GetMetrics"}

\* ------------------------------------------- inputs the model draws from
\* Four environments: "tokens" varies what the identity provider issues,
\* "queries" what the query endpoint answers, "facade" the interface calls,
\* and "concurrent" calls the scalers from concurrent goroutines.

ServicePrincipal(clientID, clientSecret, workspaceID, threshold) ==
    [tenantID |-> "t", clientID |-> clientID, clientSecret |-> clientSecret,
     workspaceID |-> workspaceID, podIdentity |-> "", threshold |-> threshold]

PodIdentity(workspaceID, threshold) ==
    [tenantID |-> "", clientID |-> "", clientSecret |-> "",
     workspaceID |-> workspaceID, podIdentity |-> "azure", threshold |-> threshold]

\* The scalers of one process: same credentials, different credentials, two
\* pod-identity scalers, one of each kind, different credentials with the
\* separator of getHash in them, and a service principal whose client id and
\* secret are the pod identity's name.
Deployments(m) ==
    IF m = "concurrent"
    THEN { <<ServicePrincipal("a", "s", "w1", 5), ServicePrincipal("a", "s", "w2", 7)>>,
           <<ServicePrincipal("a", "s", "w1", 5), ServicePrincipal("b", "s", "w1", 5)>>,
           <<PodIdentity("w1", 5), PodIdentity("w2", 7)>>,
           <<ServicePrincipal("a", "s", "w1", 5), PodIdentity("w1", 5)>>,
           <<ServicePrincipal("a|b", "c", "w1", 5), ServicePrincipal("a", "b|c", "w1", 5)>>,
           <<PodIdentity("w1", 5), ServicePrincipal("azure", "azure", "w1", 5)>> }
    ELSE IF m = "tokens"
    THEN { <<ServicePrincipal("a", "s", "w1", 5), ServicePrincipal("a", "s", "w2", 7)>>,
           <<PodIdentity("w1", 5), ServicePrincipal("a", "s", "w1", 5)>> }
    ELSE { <<ServicePrincipal("a", "s", "w1", 5), PodIdentity("w2", 7)>> }

OpsOf(m) == IF m \in {"facade", "validation"} THEN Ops ELSE {"GetMetrics"}

\* The builds in use: they differ where a query result holds a number out of
\* the int64 range, which "validation" and "facade" draw.
BuildsOf(m) == IF m \in {"validation", "facade"} THEN Builds ELSE {"amd64"}

\* The calls the caller makes at most. "validation" examines one response in
\* each behaviour: a single call, of any scaler and any of the three functions.
CallBound(m) ==
    IF m = "facade" THEN MaxFacadeCalls
    ELSE IF m = "validation" THEN 1
    ELSE MaxCalls

\* A token the identity provider issues at time t: expires_on and not_before
\* are seconds ahead of t.
Issued(t, accessToken, expiresIn, notBeforeIn) ==
    [AccessToken |-> accessToken, ExpiresOn |-> t + expiresIn, NotBefore |-> t + notBeforeIn]

IssuedTokens(t, m) ==
    IF m = "tokens"
    THEN { Issued(t, "x", 31, 0), Issued(t, "x", 31, 10), Issued(t, "x", 31, 11),
           Issued(t, "y", 29, 0), Issued(t, "", 31, 0) }
    ELSE IF m = "queries" THEN { Issued(t, "x", 31, 0), Issued(t, "y", 31, 2) }
    ELSE IF m = "validation" THEN { Issued(t, "x", 31, 0), Issued(t, "x", 31, 2) }
    ELSE IF m = "facade" THEN { Issued(t, "x", 31, 2) }
    ELSE { Issued(t, "x", 31, 0), Issued(t, "y", 31, 2) }

\* What the identity provider (AAD or IMDS) may answer at time t.
AuthExchanges(t, m) ==
    { Exchange(200, TokenBody(tok)) : tok \in IssuedTokens(t, m) }
    \cup { Exchange(401, TokenBody(ZeroToken)) }
    \cup (IF m = "tokens" THEN {TransportFailure} ELSE {})

Sample(types, row) == Exchange(200, TablesBody(FALSE, <<Table(types, <<row>>)>>))

\* The query results the "validation" environment draws from: column types
\* and rows of up to two entries, tables of up to two rows, up to two tables.
ColumnTypes == {"real", "int", "long", "string"}

Cells == {NullCell, NumCell(25), NumCell(1), NumCell(-2), StrCell, HugeCell}

UpToTwo(S) == {<<>>} \cup {<<a>> : a \in S} \cup {<<a, b>> : a \in S, b \in S}

ColumnSeqs ==
    {<<>>} \cup {<<a>> : a \in ColumnTypes}
           \cup {<<a, b>> : a \in ColumnTypes, b \in {"real", "string"}}

OneRowTables == {Table(types, <<row>>) : types \in ColumnSeqs, row \in UpToTwo(Cells)}

OtherTables ==
    { Table(<<"real">>, <<>>), Table(<<>>, <<>>),
      Table(<<"real">>, <<<<NumCell(24)>>, <<NumCell(26)>>>>),
      Table(<<"real">>, <<<<NumCell(24)>>>>) }

QueryResults ==
    {<<>>} \cup {<<t>> : t \in OneRowTables \cup OtherTables}
           \cup {<<t, u>> : t \in OtherTables, u \in OtherTables}

Responses ==
    { Exchange(200, TablesBody(FALSE, tables)) : tables \in QueryResults }
    \cup { Exchange(500, TextBody(FALSE)), Exchange(200, TextBody(FALSE)),
           Exchange(200, EmptyBody) }

\* What the Log Analytics query endpoint may answer.
QueryExchanges(m) ==
    IF m = "validation" THEN Responses
    ELSE IF m = "queries"
    THEN { Sample(<<"real">>, <<NumCell(10)>>),
           Exchange(200, TablesBody(TRUE, <<>>)),
           Exchange(200, TablesBody(FALSE, <<>>)),
           Exchange(403, TablesBody(FALSE, <<>>)),
           Exchange(500, TextBody(FALSE)),
           ReadFailure(403),
           TransportFailure }
    ELSE IF m = "facade"
    THEN { Sample(<<"real">>, <<NumCell(10)>>),
           Sample(<<"real", "real">>, <<NumCell(24), NumCell(200)>>),
           Sample(<<"long">>, <<NumCell(0)>>),
           Sample(<<"real">>, <<HugeCell>>),
           Exchange(500, TextBody(FALSE)) }
    ELSE IF m = "tokens"
    THEN { Sample(<<"real">>, <<NumCell(10)>>),
           Exchange(403, TablesBody(FALSE, <<>>)) }
    ELSE { Sample(<<"real">>, <<NumCell(10)>>) }

\* ------------------------------------------------------------ Init

NoFrame ==
    [op |-> "none", currentTimeSec |-> 0, tokenInfo |-> ZeroToken, newToken |-> ZeroToken,
     forced |-> FALSE, err |-> NoErr, firstErr |-> FALSE, wake |-> 0]

NoRun ==
    [acq |-> "none", found |-> FALSE, cachedTok |-> ZeroToken, by |-> 0, torn |-> FALSE,
     acqCalls |-> 0, authCalls |-> 0, queryCalls |-> 0,
     status1 |-> 0, status2 |-> 0, marker1 |-> FALSE, sig1 |-> FALSE, tok1 |-> ZeroToken, tok2 |-> ZeroToken,
     forcedTok |-> ZeroToken, forcedErr |-> NoErr, forcedPut |-> <<>>, slept |-> 0,
     acquiredAt |-> 0]

NoReturn ==
    [who |-> 0, op |-> "none", ran |-> FALSE, runErr |-> NoErr, err |-> NoErr, active |-> FALSE,
     spec |-> <<>>, metrics |-> <<>>,
     authCalls |-> 0, queryCalls |-> 0, status1 |-> 0, status2 |-> 0,
     marker1 |-> FALSE, sig1 |-> FALSE, forcedErr |-> NoErr]

\* Counters: GetMetrics calls and the runs they started; IsActive and
\* GetMetricSpecForScaling calls that succeeded and the runs among them.
NoStats == [metricsCalls |-> 0, metricsRuns |-> 0, cachedOk |-> 0, cachedOkRuns |-> 0]

\* No response examined yet.
NoQuery ==
    [seen |-> FALSE, reply |-> Exchange(0, NilBody), panic |-> FALSE, err |-> NoErr,
     value |-> 0, threshold |-> 0]

Start ==
    /\ now = 0
    /\ crashed = FALSE
    /\ metadata \in Deployments(mode)
    /\ cache = [i \in Instances |-> [metricValue |-> -1, metricThreshold |-> -1]]
    /\ tokenCache = [m |-> <<>>, readers |-> {}, writer |-> {}, dirty |-> {}, owner |-> <<>>]
    /\ pc = [i \in Instances |-> "idle"]
    /\ frame = [i \in Instances |-> NoFrame]
    /\ run = [i \in Instances |-> NoRun]
    /\ returned = NoReturn
    /\ nCalls = [i \in Instances |-> 0]
    /\ stats = [i \in Instances |-> NoStats]
    /\ lastQuery = NoQuery
    /\ build \in BuildsOf(mode)

Init == mode = "tokens" /\ Start

InitQueries == mode = "queries" /\ Start

InitFacade == mode = "facade" /\ Start

InitConcurrent == mode = "concurrent" /\ Start

InitValidation == mode = "validation" /\ Start

\* ------------------------------------------------- the interface's results

\* Faulty variant of updatedCache: a sample threshold of 0 is kept.
updatedCache_ZeroKept(meta, value, threshold) ==
    [metricValue |-> value,
     metricThreshold |-> IF threshold >= 0 THEN threshold ELSE meta.threshold]

\* updateCache after a successful getMetricData.
updatedCache(meta, value, threshold) ==
    [metricValue |-> value,
     metricThreshold |-> IF threshold > 0 THEN threshold ELSE meta.threshold]

\* Faulty variant of cacheIsStale: a cached value of 0 taken for no value.
cacheIsStale_ZeroIncluded(c) == c.metricValue <= 0

\* Whether updateCache calls getMetricData.
cacheIsStale(c) == c.metricValue < 0

\* Whether the call of op goes to getMetricData: GetMetrics always does,
\* IsActive and GetMetricSpecForScaling through updateCache.
startsRun(o, c) == o = "GetMetrics" \/ cacheIsStale(c)

\* Faulty variant of cacheAfter: GetMetrics stores its sample too.
cacheAfter_GetMetricsToo(o, meta, c, err, value, threshold) ==
    IF err = NoErr /\ (o = "GetMetrics" \/ cacheIsStale(c))
    THEN updatedCache(meta, value, threshold)
    ELSE c

\* The sessionCache after the call of op ended with err (NoErr: with value and
\* threshold).
cacheAfter(o, meta, c, err, value, threshold) ==
    IF o # "GetMetrics" /\ err = NoErr /\ cacheIsStale(c)
    THEN updatedCache(meta, value, threshold)
    ELSE c

\* Faulty variant of swallowsError: IsActive too returns no error.
swallowsError_IsActiveToo(o) == o # "GetMetrics"

\* GetMetricSpecForScaling has no error result: it logs the error and returns
\* nil. IsActive and GetMetrics return the error, wrapped.
swallowsError(o) == o = "GetMetricSpecForScaling"

\* What IsActive, GetMetricSpecForScaling and GetMetrics return to the caller
\* i, c being the sessionCache after updateCache; r is what the run did (NoRun
\* when getMetricData was not called).
resultOf(i, o, c, err, value, ran, r) ==
    [who |-> i, op |-> o, ran |-> ran, runErr |-> err,
     err |-> IF swallowsError(o) THEN NoErr ELSE err,
     active |-> (o = "IsActive" /\ err = NoErr /\ c.metricValue > 0),
     spec |-> IF o = "GetMetricSpecForScaling" /\ err = NoErr
              THEN <<c.metricThreshold>> ELSE <<>>,
     metrics |-> IF o = "GetMetrics" /\ err = NoErr THEN <<value>> ELSE <<>>,
     authCalls |-> r.authCalls, queryCalls |-> r.queryCalls,
     status1 |-> r.status1, status2 |-> r.status2,
     marker1 |-> r.marker1, sig1 |-> r.sig1, forcedErr |-> r.forcedErr]

\* --------------------------------------------------------------- actions

\* The key instance i reads the token cache under, and the one it writes under
\* (in getAccessToken, or in executeQuery when the refresh is the forced one).
ReadKey(i) == lookupKey(metadata[i])

WriteKey(i) ==
    IF frame[i].forced THEN retryStoreKey(metadata[i]) ELSE storeKey(metadata[i])

\* The counters after a call of op: ran tells whether it called
\* getMetricData, ended whether it returned, err with what.
counted(st, o, ran, ended, err) ==
    IF o = "GetMetrics"
    THEN IF ended THEN st
         ELSE [st EXCEPT !.metricsCalls = @ + 1, !.metricsRuns = @ + (IF ran THEN 1 ELSE 0)]
    ELSE IF ended /\ err = NoErr
         THEN [st EXCEPT !.cachedOk = @ + 1, !.cachedOkRuns = @ + (IF ran THEN 1 ELSE 0)]
         ELSE st

\* The interface call of instance i returns; r is run[i] at the return.
Return(i, err, value, threshold, r) ==
    LET o == frame[i].op
        c == cacheAfter(o, metadata[i], cache[i], err, value, threshold)
    IN
    /\ pc' = [pc EXCEPT ![i] = "idle"]
    /\ cache' = [cache EXCEPT ![i] = c]
    /\ returned' = resultOf(i, o, c, err, value, TRUE, r)
    /\ frame' = [frame EXCEPT ![i] = NoFrame]
    /\ run' = [run EXCEPT ![i] = NoRun]
    /\ stats' = [stats EXCEPT ![i] = counted(@, o, TRUE, TRUE, err)]

\* A panic nobody recovers ends the process.
Panic(i, where) ==
    /\ crashed' = TRUE
    /\ pc' = [pc EXCEPT ![i] = where]
    /\ UNCHANGED <<now, metadata, cache, tokenCache, frame, run, returned, nCalls, stats, build, mode>>

\* The caller of the scalers (outside this file), within the bounds.
mayCall(i, o) ==
    /\ o \in OpsOf(mode)
    /\ nCalls[1] + nCalls[2] < CallBound(mode)
    /\ mode # "concurrent" => \A j \in Instances : pc[j] = "idle"

\* IsActive, GetMetricSpecForScaling or GetMetrics is called: up to
\* getAccessToken's time.Now(), or to the return when the sessionCache is used.
Call(i, o) ==
    /\ ~crashed
    /\ pc[i] = "idle"
    /\ mayCall(i, o)
    /\ nCalls' = [nCalls EXCEPT ![i] = @ + 1]
    /\ IF startsRun(o, cache[i])
       THEN /\ pc' = [pc EXCEPT ![i] = "getRLock"]
            /\ frame' = [frame EXCEPT ![i] = [NoFrame EXCEPT !.op = o, !.currentTimeSec = now]]
            /\ stats' = [stats EXCEPT ![i] = counted(@, o, TRUE, FALSE, NoErr)]
            /\ UNCHANGED <<cache, returned>>
       ELSE /\ returned' = resultOf(i, o, cache[i], NoErr, 0, FALSE, NoRun)
            /\ stats' = [stats EXCEPT ![i] = counted(@, o, FALSE, TRUE, NoErr)]
            /\ UNCHANGED <<pc, frame, cache>>
    /\ UNCHANGED <<now, crashed, metadata, tokenCache, run, lastQuery, build, mode>>

\* tokenCache.RLock(): waits while a writer holds the lock.
rlockFree(tc) == tc.writer = {}

GetTokenRLock(i) ==
    /\ ~crashed
    /\ pc[i] = "getRLock"
    /\ rlockFree(tokenCache)
    /\ tokenCache' = [tokenCache EXCEPT !.readers = @ \cup {i}]
    /\ pc' = [pc EXCEPT ![i] = "getRead"]
    /\ UNCHANGED <<now, crashed, metadata, cache, frame, run, returned, nCalls, stats, lastQuery, build, mode>>

\* The lookup, RUnlock, and getAccessToken's choice between the cached token
\* (sent with the first query) and a refresh.
GetTokenRead(i) ==
    LET got == getTokenFromCache(tokenCache.m, ReadKey(i))
        refresh == needsRefresh(frame[i].currentTimeSec, got.tok)
        seen == [run[i] EXCEPT !.found = got.found, !.cachedTok = got.tok,
                               !.by = IF got.found THEN tokenCache.owner[ReadKey(i)] ELSE 0,
                               !.torn = ReadKey(i) \in tokenCache.dirty]
    IN
    /\ ~crashed
    /\ pc[i] = "getRead"
    /\ tokenCache' = [tokenCache EXCEPT !.readers = @ \ {i}]
    /\ frame' = [frame EXCEPT ![i].tokenInfo = got.tok]
    /\ IF refresh
       THEN /\ pc' = [pc EXCEPT ![i] = "auth"]
            /\ run' = [run EXCEPT ![i] = [seen EXCEPT !.authCalls = 1, !.acqCalls = 1]]
       ELSE /\ pc' = [pc EXCEPT ![i] = "query"]
            /\ run' = [run EXCEPT ![i] = [seen EXCEPT !.acq = "cached", !.queryCalls = 1,
                                                      !.tok1 = got.tok,
                                                      !.acquiredAt = now]]
    /\ UNCHANGED <<now, crashed, metadata, cache, returned, nCalls, stats, lastQuery, build, mode>>

\* refreshAccessToken, given what runHTTP returned to getAuthorizationToken at
\* time currentTimeSec: the token, the error and the seconds to sleep.
refreshAccessToken(currentTimeSec, r) ==
    LET got == getAuthorizationToken(r)
        chk == notBeforeCheck(currentTimeSec, got.tok)
    IN
    IF got.err # NoErr THEN [tok |-> ZeroToken, err |-> got.err, sleep |-> 0]
    ELSE IF chk.err # NoErr THEN [tok |-> ZeroToken, err |-> chk.err, sleep |-> 0]
    ELSE [tok |-> got.tok, err |-> NoErr, sleep |-> chk.sleep]

\* refreshAccessToken returned (tok, err) to getAccessToken (which gives up on
\* an error) or to executeQuery (which stores the token first in any case).
Refreshed(i, tok, err) ==
    IF ~frame[i].forced /\ err # NoErr
    THEN Return(i, err, 0, 0, run[i])
    ELSE /\ pc' = [pc EXCEPT ![i] = "setLock"]
         /\ frame' = [frame EXCEPT ![i].newToken = tok, ![i].err = err]
         /\ run' = IF frame[i].forced
                   THEN [run EXCEPT ![i].forcedTok = tok, ![i].forcedErr = err]
                   ELSE run
         /\ UNCHANGED <<cache, returned, stats>>

\* The identity provider answers; refreshAccessToken reads the clock.
AuthReply(i, x) ==
    LET r == runHTTP(x)
        got == refreshAccessToken(now, r)
    IN
    /\ ~crashed
    /\ pc[i] = "auth"
    /\ IF r.panic THEN Panic(i, "panic in runHTTP")
       ELSE /\ IF got.sleep > 0
               THEN /\ pc' = [pc EXCEPT ![i] = "sleep"]
                    /\ frame' = [frame EXCEPT ![i].newToken = got.tok, ![i].wake = now + got.sleep]
                    /\ run' = [run EXCEPT ![i].slept = got.sleep]
                    /\ UNCHANGED <<cache, returned, stats>>
               ELSE Refreshed(i, got.tok, got.err)
            /\ UNCHANGED <<now, crashed, metadata, tokenCache, nCalls, build, mode>>
    /\ UNCHANGED lastQuery

\* time.Sleep returns: not before the wake time.
Wake(i) ==
    /\ ~crashed
    /\ pc[i] = "sleep"
    /\ now' = IF now < frame[i].wake THEN frame[i].wake ELSE now
    /\ Refreshed(i, frame[i].newToken, NoErr)
    /\ UNCHANGED <<crashed, metadata, tokenCache, nCalls, lastQuery, build, mode>>

\* Faulty variant of lockFree: the writer does not wait for the readers.
lockFree_IgnoresReaders(tc) == tc.writer = {}

\* tokenCache.Lock(): waits while anyone holds the lock. The assignment to the
\* map starts.
lockFree(tc) == tc.writer = {} /\ tc.readers = {}

SetTokenLock(i) ==
    /\ ~crashed
    /\ pc[i] = "setLock"
    /\ lockFree(tokenCache)
    /\ tokenCache' = [tokenCache EXCEPT !.writer = {i}, !.dirty = {WriteKey(i)}]
    /\ pc' = [pc EXCEPT ![i] = "setWrite"]
    /\ UNCHANGED <<now, crashed, metadata, cache, frame, run, returned, nCalls, stats, lastQuery, build, mode>>

\* The assignment is complete, Unlock. getAccessToken returns the new token
\* and the first query is sent; executeQuery sends the second query, or
\* returns the refresh's error.
SetTokenWrite(i) ==
    LET tok == frame[i].newToken
        sent == retryToken(frame[i].tokenInfo, tok)
    IN
    /\ ~crashed
    /\ pc[i] = "setWrite"
    /\ tokenCache' = [tokenCache EXCEPT !.m = mapPut(@, WriteKey(i), tok),
                                        !.owner = mapPut(@, WriteKey(i), i),
                                        !.writer = {}, !.dirty = {}]
    /\ IF ~frame[i].forced
       THEN /\ pc' = [pc EXCEPT ![i] = "query"]
            /\ frame' = [frame EXCEPT ![i].tokenInfo = tok]
            /\ run' = [run EXCEPT ![i].acq = "refreshed", ![i].queryCalls = 1, ![i].tok1 = tok,
                                  ![i].acquiredAt = now]
            /\ UNCHANGED <<cache, returned, stats>>
       ELSE IF frame[i].err = NoErr
       THEN /\ pc' = [pc EXCEPT ![i] = "query"]
            /\ frame' = [frame EXCEPT ![i].tokenInfo = sent]
            /\ run' = [run EXCEPT ![i].forcedPut = <<WriteKey(i), tok>>,
                                  ![i].queryCalls = @ + 1, ![i].tok2 = sent]
            /\ UNCHANGED <<cache, returned, stats>>
       ELSE Return(i, frame[i].err, 0, 0,
                   [run[i] EXCEPT !.forcedPut = <<WriteKey(i), tok>>])
    /\ UNCHANGED <<now, crashed, metadata, nCalls, lastQuery, build, mode>>

\* Faulty variant of retryAllowed: every response is tested.
retryAllowed_Always(queryCalls) == TRUE

\* executeQuery's if block runs once: only the first response is tested for an
\* expired token.
retryAllowed(queryCalls) == queryCalls = 1

\* The query endpoint answers: executeQuery refreshes the token and retries,
\* or validates the response.
QueryReply(i, x) ==
    LET r == runHTTP(x)
        first == run[i].queryCalls = 1
        err == IF first THEN r.err ELSE frame[i].firstErr
        retry == retryAllowed(run[i].queryCalls) /\ tokenExpiredSignal(r)
        out == queryOutcome(r, err, build)
        marker == ~BodyLen0(r.body) /\ r.body.marker
        ended == [run[i] EXCEPT !.status1 = IF first THEN r.statusCode ELSE @,
                                !.marker1 = IF first THEN marker ELSE @,
                                !.status2 = IF first THEN @ ELSE r.statusCode]
    IN
    /\ ~crashed
    /\ pc[i] = "query"
    /\ IF r.panic THEN Panic(i, "panic in runHTTP")
       ELSE IF ~retry /\ out.panic THEN Panic(i, "panic in executeQuery")
       ELSE /\ IF retry
               THEN /\ pc' = [pc EXCEPT ![i] = "auth"]
                    /\ frame' = [frame EXCEPT ![i].forced = TRUE, ![i].firstErr = r.err]
                    /\ run' = [run EXCEPT ![i].status1 = r.statusCode, ![i].sig1 = TRUE,
                                          ![i].marker1 = marker,
                                          ![i].authCalls = @ + 1]
                    /\ UNCHANGED <<cache, returned, stats>>
               ELSE Return(i, out.err, out.value, out.threshold, ended)
            /\ UNCHANGED <<now, crashed, metadata, tokenCache, nCalls, build, mode>>
    /\ lastQuery' = IF r.panic \/ retry THEN lastQuery
                    ELSE [seen |-> TRUE, reply |-> x, panic |-> out.panic, err |-> out.err,
                          value |-> out.value, threshold |-> out.threshold]

\* A second passes: the wall clock time.Now() reads advances at any point,
\* also while a goroutine waits for the lock of the token cache or holds it.
Tick ==
    /\ ~crashed
    /\ now < MaxNow
    /\ now' = now + 1
    /\ UNCHANGED <<crashed, metadata, cache, tokenCache, pc, frame, run, returned, nCalls, stats, lastQuery, build, mode>>

Next ==
    \/ \E i \in Instances, o \in Ops : Call(i, o)
    \/ \E i \in Instances : GetTokenRLock(i)
    \/ \E i \in Instances : GetTokenRead(i)
    \/ \E i \in Instances : \E x \in AuthExchanges(now, mode) : AuthReply(i, x)
    \/ \E i \in Instances : Wake(i)
    \/ \E i \in Instances : SetTokenLock(i)
    \/ \E i \in Instances : SetTokenWrite(i)
    \/ \E i \in Instances : \E x \in QueryExchanges(mode) : QueryReply(i, x)
    \/ Tick

Spec == Init /\ [][Next]_vars

SpecQueries == InitQueries /\ [][Next]_vars

SpecFacade == InitFacade /\ [][Next]_vars

SpecConcurrent == InitConcurrent /\ [][Next]_vars

SpecValidation == InitValidation /\ [][Next]_vars

\* ------------------------------------------------------------ properties

\* Instance i is in a getMetricData run, past getAccessToken's cache lookup.
PastRead(i) == pc[i] \in {"auth", "sleep", "setLock", "setWrite", "query"}

\* getAccessToken of instance i has just returned its token: the first query
\* is in flight and the clock has not moved since.
JustAcquired(i) ==
    pc[i] = "query" /\ run[i].queryCalls = 1 /\ now = run[i].acquiredAt

\* C1 as stated (token reuse): a lookup that finds a token with
\* now + 30 <= expiresOn makes no call to the identity provider; any other
\* lookup makes exactly one; and right after a refresh returned a token, a
\* second getAccessToken with the same credentials would find that token in
\* the cache and return it without a call, whatever token it is.
C1_TokenReuse_AsStated ==
    \A i \in Instances :
        /\ PastRead(i) =>
               IF run[i].found /\ frame[i].currentTimeSec + 30 <= run[i].cachedTok.ExpiresOn
               THEN run[i].acqCalls = 0
               ELSE run[i].acqCalls = 1
        /\ (JustAcquired(i) /\ run[i].acq = "refreshed") =>
               LET again == getTokenFromCache(tokenCache.m, ReadKey(i)) IN
               /\ again.found
               /\ again.tok = run[i].tok1
               /\ now + 30 <= again.tok.ExpiresOn

\* C1 amended: as above, but the second getAccessToken returns the refreshed
\* token without a call only if that token has a non-empty access token and
\* is itself not expired (now + 30 <= expiresOn) when the second call starts.
C1_TokenReuse ==
    \A i \in Instances :
        /\ PastRead(i) =>
               IF run[i].found /\ frame[i].currentTimeSec + 30 <= run[i].cachedTok.ExpiresOn
               THEN run[i].acqCalls = 0
               ELSE run[i].acqCalls = 1
        /\ (/\ JustAcquired(i)
            /\ run[i].acq = "refreshed"
            /\ run[i].tok1.AccessToken # ""
            /\ now + 30 <= run[i].tok1.ExpiresOn) =>
               LET again == getTokenFromCache(tokenCache.m, ReadKey(i)) IN
               /\ again.found
               /\ again.tok = run[i].tok1

\* A refresh has just returned a usable token, after one call to the provider.
C1_Witness ==
    \E i \in Instances :
        /\ JustAcquired(i)
        /\ run[i].acq = "refreshed"
        /\ run[i].acqCalls = 1
        /\ run[i].tok1.AccessToken # ""
        /\ now + 30 <= run[i].tok1.ExpiresOn

\* C4 (expiry boundary): getAccessToken returns the cached token if and only
\* if the clock it read plus 30 is at most the token's expiresOn; at
\* expiresOn - 30 exactly the token is still reused.
C4_ExpiryBoundary ==
    \A i \in Instances :
        PastRead(i) =>
            ((/\ run[i].acq = "cached"
              /\ run[i].acqCalls = 0
              /\ run[i].tok1 = run[i].cachedTok)
             <=> frame[i].currentTimeSec + 30 <= run[i].cachedTok.ExpiresOn)

\* A cached token is reused at the boundary second, now = expiresOn - 30.
C4_Witness ==
    \E i \in Instances :
        /\ PastRead(i)
        /\ run[i].found
        /\ frame[i].currentTimeSec + 30 = run[i].cachedTok.ExpiresOn
        /\ run[i].acq = "cached"

\* C5 as stated (not-before skew limit): no refresh sleeps longer than 11
\* seconds; a token whose notBefore is more than 10 seconds ahead makes the
\* refresh fail instead.
C5_NotBeforeSkewLimit ==
    \A i \in Instances : run[i].slept <= 11

\* C6 as stated (token usability): every token getAccessToken returns, cached
\* or refreshed, satisfies now + 30 <= expiresOn when it is returned.
C6_TokenUsable_AsStated ==
    \A i \in Instances :
        JustAcquired(i) => now + 30 <= frame[i].tokenInfo.ExpiresOn

\* C6 amended: every token getAccessToken returns from the cache has a
\* non-empty access token and satisfies now + 30 <= expiresOn for the time
\* getAccessToken read on entry (the clock may have moved on before the token
\* is returned); a refreshed token is returned as the provider issued it, with
\* no test of its expiresOn.
C6_TokenUsable ==
    \A i \in Instances :
        JustAcquired(i) =>
            IF run[i].acq = "cached"
            THEN /\ frame[i].tokenInfo.AccessToken # ""
                 /\ frame[i].currentTimeSec + 30 <= frame[i].tokenInfo.ExpiresOn
            ELSE frame[i].tokenInfo = frame[i].newToken

\* A token stored by the other scaler has just been returned from the cache.
C6_Witness ==
    \E i \in Instances :
        /\ JustAcquired(i)
        /\ run[i].acq = "cached"
        /\ run[i].by # i
        /\ now + 30 < frame[i].tokenInfo.ExpiresOn

\* C7 (not-before): a token is never sent with a query at a time before its
\* notBefore: the refresh has slept until notBefore has passed, or has failed.
C7_NotBefore ==
    \A i \in Instances :
        pc[i] = "query" => frame[i].tokenInfo.NotBefore <= now

\* A query goes out with a token the refresh has slept for.
C7_Witness ==
    \E i \in Instances :
        /\ pc[i] = "query"
        /\ run[i].slept > 0
        /\ frame[i].tokenInfo.NotBefore > frame[i].currentTimeSec

\* C2 (bounded retry): in one run of getMetricData the query endpoint is
\* contacted at most twice and the identity provider at most twice, whatever
\* they answer; a run whose two queries were both answered 403 ends with the
\* error of line 332 ("Error processing Log Analytics request. HTTP code 403").
C2_BoundedRetry ==
    /\ \A i \in Instances : run[i].queryCalls <= 2 /\ run[i].authCalls <= 2
    /\ returned.queryCalls <= 2
    /\ returned.authCalls <= 2
    /\ (returned.ran /\ returned.status1 = 403 /\ returned.status2 = 403) =>
           /\ returned.err = 332
           /\ returned.queryCalls = 2

\* A run has ended after two queries answered 403 and two calls to the provider.
C2_Witness ==
    /\ returned.ran
    /\ returned.status1 = 403
    /\ returned.status2 = 403
    /\ returned.authCalls = 2
    /\ returned.queryCalls = 2
    /\ returned.err = 332

\* C3 (forced refresh): the first response has status 403 or contains
\* "TokenExpired" exactly when executeQuery calls the identity provider once
\* more, whether the first token came from the cache or not; the token the
\* provider then issues is stored under the key the cache is read under, and
\* the query is sent a second time, once, with that token.
C3_ForcedRefresh ==
    /\ \A i \in Instances :
           /\ (run[i].status1 = 403 \/ run[i].marker1) <=> run[i].sig1
           /\ run[i].authCalls = run[i].acqCalls + (IF run[i].sig1 THEN 1 ELSE 0)
           /\ run[i].queryCalls <= 2
           /\ (pc[i] = "query" /\ run[i].sig1) =>
                  /\ run[i].queryCalls = 2
                  /\ run[i].forcedErr = NoErr
                  /\ frame[i].tokenInfo = run[i].forcedTok
                  /\ run[i].forcedPut = <<ReadKey(i), run[i].forcedTok>>
                  /\ tokenCache.m[ReadKey(i)] = run[i].forcedTok
    /\ returned.ran =>
           IF returned.sig1 /\ returned.forcedErr = NoErr
           THEN returned.queryCalls = 2
           ELSE returned.queryCalls <= 1

\* The second query goes out with a new token although the first token came
\* from the cache and passed the test of its expiry.
C3_Witness ==
    \E i \in Instances :
        /\ pc[i] = "query"
        /\ run[i].queryCalls = 2
        /\ run[i].acq = "cached"
        /\ frame[i].currentTimeSec + 30 <= run[i].tok1.ExpiresOn
        /\ run[i].forcedTok # run[i].tok1
        /\ frame[i].tokenInfo = run[i].forcedTok

\* C8 as stated (facade caching): every GetMetrics call runs getMetricData; of the
\* IsActive and GetMetricSpecForScaling calls of a scaler that succeeded,
\* however many, exactly one has run getMetricData: the first.
C8_FacadeCaching ==
    \A i \in Instances :
        /\ stats[i].metricsRuns = stats[i].metricsCalls
        /\ stats[i].cachedOkRuns = (IF stats[i].cachedOk >= 1 THEN 1 ELSE 0)

\* Two successful IsActive or GetMetricSpecForScaling calls and a GetMetrics
\* call on one scaler.
C8_Witness ==
    \E i \in Instances :
        /\ stats[i].cachedOk >= 2
        /\ stats[i].cachedOkRuns = 1
        /\ stats[i].metricsCalls >= 1
        /\ returned.who = i
        /\ ~returned.ran

\* Scalers i and j authenticate alike: both by pod identity, or both with the
\* same client id and secret.
SameCredentials(i, j) ==
    \/ metadata[i].podIdentity # "" /\ metadata[j].podIdentity # ""
    \/ /\ metadata[i].podIdentity = "" /\ metadata[j].podIdentity = ""
       /\ metadata[i].clientID = metadata[j].clientID
       /\ metadata[i].clientSecret = metadata[j].clientSecret

\* C9 (cross-instance sharing): scalers with the same credentials, and all
\* pod-identity scalers, read the token cache under the key the others store
\* under; the token one of them stored last is what the lookup of the others
\* finds, and a lookup that finds a token with now + 30 <= expiresOn returns
\* it with no call to the identity provider, whoever stored it.
C9_CrossInstanceSharing ==
    \A i, j \in Instances :
        SameCredentials(i, j) =>
            LET key == storeKey(metadata[i]) IN
            /\ lookupKey(metadata[j]) = key
            /\ retryStoreKey(metadata[i]) = key
            /\ (/\ key \in DOMAIN tokenCache.m
                /\ tokenCache.owner[key] = i
                /\ tokenCache.m[key].AccessToken # "") =>
                   getTokenFromCache(tokenCache.m, lookupKey(metadata[j]))
                       = [tok |-> tokenCache.m[key], found |-> TRUE]
            /\ (/\ PastRead(j)
                /\ run[j].by = i
                /\ frame[j].currentTimeSec + 30 <= run[j].cachedTok.ExpiresOn) =>
                   /\ run[j].acq = "cached"
                   /\ run[j].acqCalls = 0
                   /\ run[j].tok1 = run[j].cachedTok

\* A scaler sends its query with the token another scaler, of another
\* workspace, has stored, without a call to the identity provider.
C9_Witness ==
    \E i, j \in Instances :
        /\ i # j
        /\ metadata[i].workspaceID # metadata[j].workspaceID
        /\ pc[j] = "query"
        /\ run[j].acq = "cached"
        /\ run[j].by = i
        /\ run[j].authCalls = 0

\* C10 (token cache locking): at most one goroutine writes the map, and none
\* reads it meanwhile; readers may overlap; a lookup never sees an entry whose
\* assignment is in progress; the lock is held in the lookup and in the
\* assignment only, not in an HTTP call or in time.Sleep.
C10_TokenStoreLocking ==
    /\ Cardinality(tokenCache.writer) <= 1
    /\ tokenCache.writer # {} => tokenCache.readers = {}
    /\ tokenCache.dirty # {} => tokenCache.writer # {}
    /\ \A i \in Instances :
           /\ i \in tokenCache.readers <=> pc[i] = "getRead"
           /\ i \in tokenCache.writer <=> pc[i] = "setWrite"
           /\ ~run[i].torn
           /\ pc[i] \in {"auth", "sleep", "query"} =>
                  i \notin tokenCache.readers \cup tokenCache.writer

\* One goroutine holds the write lock while the other waits for the lock.
C10_Witness ==
    \E i, j \in Instances :
        /\ tokenCache.writer = {i}
        /\ pc[j] \in {"getRLock", "setLock"}

\* Readers do overlap: a state in which two lookups hold the read lock.
C10_ReadersOverlap == Cardinality(tokenCache.readers) = 2

\* The errors by the function that builds them (named by their source lines):
\* refreshAccessToken and getAuthorizationToken; executeQuery before it looks
\* at the tables; executeQuery's validation of the tables.
AuthErrors == {429, 445, 447, 452, 459}

QueryErrors == {332, 336, 340, 345, 411}

ValidationErrors == {355, 357, 359, 371, 374, 378, 392, 395, 399, 402}

\* C11 (error propagation): when getMetricData fails, with an error of any of
\* the three kinds, IsActive and GetMetrics return that error (and false, no
\* metric), while GetMetricSpecForScaling returns no spec and no error; when
\* it succeeds no function returns an error.
C11_ErrorPropagation ==
    returned.ran =>
        /\ returned.runErr \in {NoErr} \cup AuthErrors \cup QueryErrors \cup ValidationErrors
        /\ IF returned.runErr # NoErr
           THEN IF returned.op = "GetMetricSpecForScaling"
                THEN returned.err = NoErr /\ returned.spec = <<>>
                ELSE /\ returned.err = returned.runErr
                     /\ ~returned.active
                     /\ returned.metrics = <<>>
           ELSE /\ returned.err = NoErr
                /\ returned.op = "GetMetricSpecForScaling" => returned.spec # <<>>
                /\ returned.op = "GetMetrics" => returned.metrics # <<>>

\* GetMetricSpecForScaling has returned no spec after a validation error.
C11_Witness ==
    /\ returned.ran
    /\ returned.op = "GetMetricSpecForScaling"
    /\ returned.runErr \in ValidationErrors
    /\ returned.spec = <<>>

\* C12 as stated (transport failure): when httpClient.Do fails, for the query
\* endpoint or for the identity provider, runHTTP returns an error and the call
\* ends with an error value: no scaler dies in runHTTP.
C12_TransportFailureIsError ==
    \A i \in Instances : pc[i] # "panic in runHTTP"

\* C13 (threshold substitution): after IsActive or GetMetricSpecForScaling
\* has fetched a sample, the scaler's metricThreshold is the sample's
\* threshold if that is > 0 and the threshold of the metadata otherwise (the
\* sample's is -1 or 0), and GetMetricSpecForScaling reports metricThreshold.
C13_ThresholdSubstitution ==
    (/\ returned.ran
     /\ returned.op # "GetMetrics"
     /\ returned.runErr = NoErr) =>
        LET i == returned.who IN
        /\ lastQuery.seen /\ lastQuery.err = NoErr
        /\ cache[i].metricThreshold =
               IF lastQuery.threshold > 0 THEN lastQuery.threshold
               ELSE metadata[i].threshold
        /\ returned.op = "GetMetricSpecForScaling" =>
               returned.spec = <<cache[i].metricThreshold>>

\* GetMetricSpecForScaling reports the threshold of the metadata after a
\* sample whose threshold is 0.
C13_Witness ==
    /\ returned.ran
    /\ returned.op = "GetMetricSpecForScaling"
    /\ returned.runErr = NoErr
    /\ lastQuery.threshold = 0
    /\ returned.spec = <<metadata[returned.who].threshold>>

\* The shape of a decoded status-200 response, by its numbers of tables and of
\* rows in its only table.
Shape(x) ==
    LET tables == x.body.tables IN
    IF x.doErr \/ x.readErr \/ x.statusCode # 200 \/ x.body.kind # "json" THEN "none"
    ELSE IF Len(tables) = 0 THEN "zero tables"
    ELSE IF Len(tables) > 1 THEN "two tables"
    ELSE IF Len(tables[1].Rows) = 0 THEN "zero rows"
    ELSE IF Len(tables[1].Rows) > 1 THEN "two rows"
    ELSE "one row"

ShapeViolations == {"zero tables", "two tables", "zero rows", "two rows"}

\* C14 as stated (shape violations): a status-200 response with zero tables,
\* with two tables, with one table of zero rows or with one table of two rows
\* fails with a validation error, and no response with another of these four
\* shapes fails with the same error.
C14_ShapeErrorsDistinct ==
    (lastQuery.seen /\ Shape(lastQuery.reply) \in ShapeViolations) =>
        /\ lastQuery.err \in ValidationErrors
        /\ \A y \in Responses :
               (Shape(y) \in ShapeViolations /\ Shape(y) # Shape(lastQuery.reply)) =>
                   queryOutcome(runHTTP(y), FALSE, build).err # lastQuery.err

\* The first validation rule, in the order table count (1), at least one
\* column and one row (2), at most one row (3), value column (4), threshold
\* column (5), that the tables violate; 0 if none.
FirstViolatedRule(tables, arch) ==
    IF Len(tables) # 1 THEN 1
    ELSE IF Len(tables[1].Columns) = 0 \/ Len(tables[1].Rows) = 0 THEN 2
    ELSE IF Len(tables[1].Rows) > 1 THEN 3
    ELSE IF valueColumn(tables[1], arch).err # NoErr THEN 4
    ELSE IF thresholdColumn(tables[1], arch).err # NoErr THEN 5
    ELSE 0

\* The rule whose violation an error of executeQuery reports. The message of
\* line 355, "there is no results", reports the table count only when there is
\* no table.
RuleOfError(err, tables) ==
    IF err = NoErr THEN 0
    ELSE IF err = 357 THEN 1
    ELSE IF err = 355 THEN (IF Len(tables) = 0 THEN 1 ELSE 2)
    ELSE IF err = 359 THEN 3
    ELSE IF err \in {371, 374, 378} THEN 4
    ELSE 5

\* C15 as stated (validation order): for every decoded status-200 response
\* the error executeQuery returns is that of the first rule, in the order
\* above, that the response violates, and none if it violates none.
C15_ValidationOrder ==
    (/\ lastQuery.seen
     /\ Shape(lastQuery.reply) # "none"
     /\ ~lastQuery.panic) =>
        RuleOfError(lastQuery.err, lastQuery.reply.body.tables)
            = FirstViolatedRule(lastQuery.reply.body.tables, build)

\* executeQuery has examined a decoded status-200 response of one table with
\* at least one column and exactly one row, and has returned.
OneRowExamined ==
    /\ lastQuery.seen
    /\ Shape(lastQuery.reply) = "one row"
    /\ Len(lastQuery.reply.body.tables[1].Columns) > 0
    /\ ~lastQuery.panic

\* C16 as stated (value column): with no first cell or a null one the value
\* is 0; a non-null first cell passes only if column 0 has type real, int or
\* long and the cell is a number >= 0, and the value is then its integer part;
\* anything else is a validation error of the value column; every sample
\* returned has a value >= 0.
C16_ValueColumnRule ==
    OneRowExamined =>
        LET table == lastQuery.reply.body.tables[1]
            row == table.Rows[1]
            valueErrors == {371, 374, 378}
        IN
        /\ IF Len(row) = 0 \/ row[1] = NullCell
           THEN /\ lastQuery.err \notin valueErrors
                /\ lastQuery.err = NoErr => lastQuery.value = 0
           ELSE IF /\ table.Columns[1] \in {"real", "int", "long"}
                   /\ row[1].k \in {"num", "huge"}
                   /\ row[1].v >= 0
           THEN /\ lastQuery.err \notin valueErrors
                /\ lastQuery.err = NoErr =>
                       row[1].k = "num" /\ lastQuery.value = row[1].v \div 2
           ELSE lastQuery.err \in valueErrors
        /\ lastQuery.err = NoErr => lastQuery.value >= 0

\* C17 as stated (threshold column): once the value column has passed, a row
\* with no second cell gives the threshold -1; a null second cell is a
\* validation error; a non-null second cell passes only if column 1 has type
\* real, int or long and the cell is a number >= 0, and the threshold is then
\* its integer part; anything else, a second cell with no declared column
\* included, is a validation error.
C17_ThresholdColumnRule ==
    (/\ lastQuery.seen
     /\ Shape(lastQuery.reply) = "one row"
     /\ Len(lastQuery.reply.body.tables[1].Columns) > 0
     /\ lastQuery.err \notin {371, 374, 378}) =>
        LET table == lastQuery.reply.body.tables[1]
            row == table.Rows[1]
        IN
        IF lastQuery.panic THEN FALSE
        ELSE IF Len(row) < 2
        THEN lastQuery.err = NoErr /\ lastQuery.threshold = -1
        ELSE IF row[2] = NullCell
        THEN lastQuery.err = 402
        ELSE IF /\ table.Columns[2] \in {"real", "int", "long"}
                /\ row[2].k \in {"num", "huge"}
                /\ row[2].v >= 0
        THEN /\ lastQuery.err = NoErr
             /\ row[2].k = "num"
             /\ lastQuery.threshold = row[2].v \div 2
        ELSE lastQuery.err \in {392, 395, 399}

\* C18 as stated (fingerprint key): two service principals read and write the
\* token cache under the same key if and only if their client ids are equal
\* and their client secrets are equal.
C18_FingerprintKey ==
    \A i, j \in Instances :
        (metadata[i].podIdentity = "" /\ metadata[j].podIdentity = "") =>
            (getHash(metadata[i].clientID, metadata[i].clientSecret)
                 = getHash(metadata[j].clientID, metadata[j].clientSecret)
             <=> /\ metadata[i].clientID = metadata[j].clientID
                 /\ metadata[i].clientSecret = metadata[j].clientSecret)

\* C19 as stated (a failed refresh leaves the token cache unchanged): the step
\* of a scaler that ends a refresh which failed, in getAccessToken or in the
\* forced refresh of executeQuery, leaves every entry of the token cache as it
\* was.
C19_FailedRefreshKeepsStore ==
    [][\A i \in Instances :
          (/\ pc[i] \in {"auth", "sleep", "setLock", "setWrite"}
           /\ pc'[i] = "idle"
           /\ returned'.who = i
           /\ returned'.runErr \in AuthErrors)
          => tokenCache'.m = tokenCache.m]_vars

\* C20 as stated (validation never crashes): for a decoded status-200 response
\* of one table with at least one column and exactly one row, whatever the
\* number of cells of the row, executeQuery returns a sample or a validation
\* error and no scaler stops in a panic of executeQuery.
C20_ValidationNeverCrashes ==
    (/\ lastQuery.seen
     /\ Shape(lastQuery.reply) = "one row"
     /\ Len(lastQuery.reply.body.tables[1].Columns) > 0) =>
        /\ ~lastQuery.panic
        /\ lastQuery.err \in {NoErr} \cup ValidationErrors
        /\ \A i \in Instances : pc[i] # "panic in executeQuery"

\* C21 as stated (authentication flows apart): the token getAccessToken takes
\* from the token cache was stored by a scaler of the same flow, pod identity
\* or service principal, whatever the client id and secret are.
C21_AuthFlowIsolation ==
    \A i, j \in Instances :
        (PastRead(j) /\ run[j].acq = "cached" /\ run[j].by = i) =>
            ((metadata[i].podIdentity = "") <=> (metadata[j].podIdentity = ""))

\* A step in which a call of IsActive or GetMetricSpecForScaling on scaler i
\* returns after getMetricData failed.
FailedUpdate(i) ==
    /\ pc[i] # "idle"
    /\ pc'[i] = "idle"
    /\ frame[i].op # "GetMetrics"
    /\ returned'.who = i
    /\ returned'.ran
    /\ returned'.runErr # NoErr

\* C22 as stated (a failed update leaves the cache as it was): a failed
\* getMetricData inside IsActive or GetMetricSpecForScaling does not change the
\* sessionCache, which is still {-1, -1}, so that the next such call runs the
\* query again; metricValue is always -1 or >= 0; once it is >= 0 neither
\* field changes.
C22_FailedUpdateKeepsCache ==
    /\ [](\A i \in Instances : cache[i].metricValue = -1 \/ cache[i].metricValue >= 0)
    /\ [][\A i \in Instances :
             /\ FailedUpdate(i) =>
                    /\ cache'[i] = cache[i]
                    /\ cache'[i] = [metricValue |-> -1, metricThreshold |-> -1]
                    /\ cacheIsStale(cache'[i])
             /\ cache[i].metricValue >= 0 => cache'[i] = cache[i]]_vars

\* A step in which a call of GetMetrics on scaler i returns.
GetMetricsReturns(i) ==
    /\ pc[i] # "idle"
    /\ pc'[i] = "idle"
    /\ frame[i].op = "GetMetrics"

\* C23 (GetMetrics leaves the sessionCache as it was): a GetMetrics call,
\* failed or not, changes neither metricValue nor metricThreshold of any
\* scaler; while no IsActive or GetMetricSpecForScaling call of a scaler has
\* succeeded its cache is {-1, -1}, whatever GetMetrics returned; and a call
\* on a scaler whose cached value is -1 runs getMetricData.
C23_GetMetricsKeepsCache ==
    [][\A i \in Instances :
          /\ GetMetricsReturns(i) => cache' = cache
          /\ stats'[i].cachedOk = 0 =>
                 cache'[i] = [metricValue |-> -1, metricThreshold |-> -1]
          /\ (nCalls'[i] # nCalls[i] /\ cache[i].metricValue = -1) =>
                 pc'[i] = "getRLock"]_vars

\* GetMetrics has returned a value other than the one the cache of its scaler
\* holds since an earlier IsActive or GetMetricSpecForScaling.
C23_Witness ==
    \E i \in Instances :
        /\ returned.who = i
        /\ returned.op = "GetMetrics"
        /\ returned.ran
        /\ returned.err = NoErr
        /\ stats[i].cachedOk >= 1
        /\ cache[i].metricValue >= 0
        /\ returned.metrics # <<cache[i].metricValue>>

====
